---- MODULE Spec2Model ----
(***************************************************************************)
(* A model of dashboard.py: the batted-ball-event table read from          *)
(* bbes.parquet, get_data (minimum-sample filter, per-player aggregation,  *)
(* league table), and the two views of main (Individual Player and         *)
(* Leaderboard).                                                           *)
(*                                                                         *)
(* Numbers.  A float is modelled by its exact value: a record              *)
(* [nan, num, den] with den > 0, or NaN.  Comparisons are made by cross    *)
(* multiplication and are all FALSE when an operand is NaN, as in IEEE     *)
(* arithmetic.  Rounding of the last bit of a double is not modelled.      *)
(* Player names are the integers 1..NumPlayers, ordered as the strings     *)
(* they stand for.                                                         *)
(***************************************************************************)
EXTENDS Integers, Sequences, FiniteSets

(* ------------------------------ bounds -------------------------------- *)
NumPlayers == 3      \* distinct batter names in the parquet file
MaxExtra == 2        \* largest per-player event count is MinCount + MaxExtra
MaxRankLen == 3      \* longest enumerated reference distribution
MaxRankVal == 3      \* enumerated reference values are 10, 20, .., 10 * MaxRankVal
MaxQueries == 2      \* scores ranked against one reference distribution

(* ------------------------- program constants -------------------------- *)
MinCount == 50       \* get_data: len(x) >= 50
HardHitSpeed == 95   \* launch_speed >= 95
OptimalLow == 15     \* launch_angle >= 15
OptimalHigh == 40    \* launch_angle <= 40
Quantile == 90       \* np.nanpercentile(x, 90)
SliderMin == 50      \* st.slider("Minimum BBEs", 50, 400, 100)
SliderMax == 400
SliderDefault == 100

VARIABLES
  parquet,          \* the rows of ./bbes.parquet
  cached,           \* st.cache_data holds the result of get_data
  bbes,             \* cached event table
  league_values,    \* cached league table
  option,           \* the view of the last run of main
  player,           \* the selected player of the last Individual Player run
  error,            \* the last run of main raised an exception
  min_bbes,         \* the slider value of the last Leaderboard run
  summary_stats,    \* launch-speed comparison table of the last run
  angle_stats,      \* launch-angle comparison table of the last run
  leaderboard,      \* the rows displayed by the last Leaderboard run
  rank_a,           \* reference distribution handed to percentileofscore
  rank_log          \* the scores ranked against rank_a, with their results

vars == <<parquet, cached, bbes, league_values, option, player, error, min_bbes,
          summary_stats, angle_stats, leaderboard, rank_a, rank_log>>

(* ------------------------------ floats -------------------------------- *)
NaN == [nan |-> TRUE, num |-> 0, den |-> 1]
R(n) == [nan |-> FALSE, num |-> n, den |-> 1]
Q(n, d) == [nan |-> FALSE, num |-> n, den |-> d]

Lt(x, y) == ~x.nan /\ ~y.nan /\ x.num * y.den < y.num * x.den
Le(x, y) == ~x.nan /\ ~y.nan /\ x.num * y.den <= y.num * x.den
Ge(x, y) == Le(y, x)
Eq(x, y) == ~x.nan /\ ~y.nan /\ x.num * y.den = y.num * x.den

Players == 1..NumPlayers

(* ------------------------- sequence helpers --------------------------- *)
CountIf(s, P(_)) == Cardinality({i \in 1..Len(s) : P(s[i])})

RECURSIVE SetToSortedSeq(_)
SetToSortedSeq(S) ==
  IF S = {} THEN <<>>
  ELSE LET m == CHOOSE x \in S : \A y \in S : x <= y
       IN <<m>> \o SetToSortedSeq(S \ {m})

RECURSIVE Concat(_)
Concat(ss) == IF ss = <<>> THEN <<>> ELSE Head(ss) \o Concat(Tail(ss))

NamesOf(t) == {t[i].batter_name : i \in 1..Len(t)}
RowsOf(t, name) == SelectSeq(t, LAMBDA r : r.batter_name = name)
Speeds(t) == [i \in 1..Len(t) |-> t[i].launch_speed]
Angles(t) == [i \in 1..Len(t) |-> t[i].launch_angle]

(* ------------------------ numpy order statistics ---------------------- *)
DropNaN(xs) == SelectSeq(xs, LAMBDA x : ~x.nan)

\* the k-th smallest (k in 1..Len(xs)) of a NaN-free sequence
OrderStat(xs, k) ==
  LET S == {xs[i] : i \in 1..Len(xs)}
  IN CHOOSE v \in S : /\ CountIf(xs, LAMBDA x : Lt(x, v)) < k
                      /\ k <= CountIf(xs, LAMBDA x : Le(x, v))

\* (1 - g/w) * lo + (g/w) * hi
Lerp(lo, hi, g, w) ==
  IF g = 0 THEN lo
  ELSE Q(lo.num * hi.den * (w - g) + hi.num * lo.den * g, w * lo.den * hi.den)

\* np.nanmedian: the middle value, or the mean of the two middle values, of
\* the non-NaN entries; NaN when there is none
MedianOf(ys, n) ==
  IF n = 0 THEN NaN
  ELSE IF n % 2 = 1 THEN OrderStat(ys, (n + 1) \div 2)
  ELSE Lerp(OrderStat(ys, n \div 2), OrderStat(ys, n \div 2 + 1), 1, 2)
nanmedian(xs) == MedianOf(DropNaN(xs), Len(DropNaN(xs)))

\* np.nanpercentile(x, q), linear interpolation at virtual index (n-1)*q/100
PercentileOf(ys, n, q) ==
  LET h == q * (n - 1)
      f == h \div 100
      g == h % 100
  IN IF n = 0 THEN NaN
     ELSE IF g = 0 THEN OrderStat(ys, f + 1)
     ELSE Lerp(OrderStat(ys, f + 1), OrderStat(ys, f + 2), g, 100)
nanpercentile(xs, q) == PercentileOf(DropNaN(xs), Len(DropNaN(xs)), q)

(* -------------------------- event predicates -------------------------- *)
IsHardHit(x) == Ge(x.launch_speed, R(HardHitSpeed))
IsOptimal(x) ==
  Ge(x.launch_angle, R(OptimalLow)) /\ Le(x.launch_angle, R(OptimalHigh))
IsBarrel(x) == IsHardHit(x) /\ IsOptimal(x)

\* count / total * 100 on a non-empty group
Pct(count, total) == Q(100 * count, total)

(* ---------------------- pandas groupby reductions --------------------- *)
\* the group keys of groupby("batter_name"): the distinct names, sorted
GroupKeys(t) == SetToSortedSeq(NamesOf(t))

\* groupby(...).apply(F).to_numpy(): one value per group, in key order
ApplyToGroups(t, keys, F(_)) == [k \in 1..Len(keys) |-> F(RowsOf(t, keys[k]))]
GroupApply(t, F(_)) == ApplyToGroups(t, GroupKeys(t), F)

get_median_launch_speeds(t) == GroupApply(t, LAMBDA g : nanmedian(Speeds(g)))
get_90th_launch_speeds(t) ==
  GroupApply(t, LAMBDA g : nanpercentile(Speeds(g), Quantile))
get_median_launch_angles(t) == GroupApply(t, LAMBDA g : nanmedian(Angles(g)))
get_optimal_pcts(t) ==
  GroupApply(t, LAMBDA g : Pct(CountIf(g, IsOptimal), Len(g)))

\* a variant that divides by the events that have a launch_speed
hardhit_pcts_nonmissing(t) ==
  GroupApply(t, LAMBDA g :
    LET k == CountIf(g, LAMBDA x : ~x.launch_speed.nan)
    IN IF k = 0 THEN NaN ELSE Pct(CountIf(g, IsHardHit), k))
get_hardhit_pcts(t) ==
  GroupApply(t, LAMBDA g : Pct(CountIf(g, IsHardHit), Len(g)))
get_barrel_pcts(t) ==
  GroupApply(t, LAMBDA g : Pct(CountIf(g, IsBarrel), Len(g)))

\* Series.unique(): the distinct names in order of first appearance
FirstRow(t, name) ==
  CHOOSE i \in 1..Len(t) :
    t[i].batter_name = name /\ \A j \in 1..(i - 1) : t[j].batter_name # name
RECURSIVE ByFirstRow(_, _)
ByFirstRow(first, N) ==
  IF N = {} THEN <<>>
  ELSE LET n == CHOOSE x \in N : \A y \in N : first[x] <= first[y]
       IN <<n>> \o ByFirstRow(first, N \ {n})
Unique(t) == ByFirstRow([n \in NamesOf(t) |-> FirstRow(t, n)], NamesOf(t))

\* Series.value_counts().to_numpy(): the per-name row counts, largest first
RECURSIVE CountsDescending(_)
CountsDescending(B) ==
  \* B: a set of <<name, count>> pairs
  IF B = {} THEN <<>>
  ELSE LET m == CHOOSE b \in B : \A c \in B : b[2] >= c[2]
       IN <<m[2]>> \o CountsDescending(B \ {m})
value_counts(t) ==
  CountsDescending({<<n, Len(RowsOf(t, n))>> : n \in NamesOf(t)})

(* ------------------------------ get_data ------------------------------ *)
\* a variant that keeps only the players with more than MinCount events
KeepNames(t, keep) == SelectSeq(t, LAMBDA r : r.batter_name \in keep)
group_filter_strict(t) ==
  KeepNames(t, {n \in NamesOf(t) : Len(RowsOf(t, n)) > MinCount})
\* bbes.groupby("batter_name").filter(lambda x: len(x) >= 50)
group_filter(t) ==
  KeepNames(t, {n \in NamesOf(t) : Len(RowsOf(t, n)) >= MinCount})

Reverse(s) == [i \in 1..Len(s) |-> s[Len(s) + 1 - i]]

\* a variant that leaves the table in file order
sort_values_skipped(t, flip) == t
\* bbes.sort_values("batter_name"), default kind="quicksort": the rows are in
\* name order; the order of the rows of one name is not specified, and is
\* modelled by two outcomes, file order (flip = FALSE) and its reverse
ConcatGroups(t, keys, flip) ==
  Concat([k \in 1..Len(keys) |->
    IF flip THEN Reverse(RowsOf(t, keys[k])) ELSE RowsOf(t, keys[k])])
sort_values_by_name(t, flip) ==
  ConcatGroups(t, SetToSortedSeq(NamesOf(t)), flip)

\* the DataFrame built from the column arrays
DataFrame(names, ms, ns, ma, op, hh, bp, vc) ==
  [i \in 1..Len(names) |->
     [hitter_name |-> names[i],
      median_launch_speed |-> ms[i],
      p90_launch_speed |-> ns[i],
      median_launch_angle |-> ma[i],
      optimal_pct |-> op[i],
      hard_hit_pct |-> hh[i],
      barrel_pct |-> bp[i],
      BBEs |-> vc[i]]]

BuildLeagueValues(t) ==
  DataFrame(Unique(t),
            get_median_launch_speeds(t),
            get_90th_launch_speeds(t),
            get_median_launch_angles(t),
            get_optimal_pcts(t),
            get_hardhit_pcts(t),
            get_barrel_pcts(t),
            value_counts(t))

Returned(t) == [bbes |-> t, league_values |-> BuildLeagueValues(t)]
get_data(pq, flip) == Returned(sort_values_by_name(group_filter(pq), flip))

(* ------------------- scipy.stats.percentileofscore -------------------- *)
HasNaN(a) == \E i \in 1..Len(a) : a[i].nan

\* kind="mean"
RankMean(left, right, n, score) ==
  IF n = 0 \/ score.nan THEN NaN ELSE Q((left + right) * 50, n)
\* the tie term added whether or not the score occurs in a
RankPlus1(left, right, n, score) ==
  IF n = 0 \/ score.nan THEN NaN ELSE Q((left + right + 1) * 50, n)
\* kind="rank": (left + right + plus1) * 50 / n, NaN when n = 0 or the score
\* is NaN
Rank(left, right, n, score) ==
  IF n = 0 \/ score.nan THEN NaN
  ELSE Q((left + right + (IF left < right THEN 1 ELSE 0)) * 50, n)

\* nan_policy="propagate": n = 0 when a contains a NaN, len(a) otherwise
Counted(a) == IF HasNaN(a) THEN 0 ELSE Len(a)

\* percentileofscore(a, score) with the defaults kind="rank",
\* nan_policy="propagate"
percentileofscore(a, score) ==
  Rank(CountIf(a, LAMBDA x : Lt(x, score)),
       CountIf(a, LAMBDA x : Le(x, score)),
       Counted(a), score)

\* f"{x:.1f}": the value rounded to one decimal (ties to even), in tenths
Format1f(x) ==
  IF x.nan THEN [nan |-> TRUE, tenths |-> 0]
  ELSE LET a == 10 * x.num
           q == a \div x.den
           r == a % x.den
       IN [nan |-> FALSE,
           tenths |-> IF 2 * r < x.den THEN q
                      ELSE IF 2 * r > x.den THEN q + 1
                      ELSE IF q % 2 = 0 THEN q ELSE q + 1]

(* ------------------------ main: Individual Player --------------------- *)
ColMedianSpeed(lv) == [i \in 1..Len(lv) |-> lv[i].median_launch_speed]
Col90thSpeed(lv) == [i \in 1..Len(lv) |-> lv[i].p90_launch_speed]
ColMedianAngle(lv) == [i \in 1..Len(lv) |-> lv[i].median_launch_angle]
ColOptimalPct(lv) == [i \in 1..Len(lv) |-> lv[i].optimal_pct]
ColHardHitPct(lv) == [i \in 1..Len(lv) |-> lv[i].hard_hit_pct]
ColBarrelPct(lv) == [i \in 1..Len(lv) |-> lv[i].barrel_pct]

\* one row of a comparison table
Row(value, column) ==
  [Player |-> value,
   League |-> nanmedian(column),
   Percentile |-> percentileofscore(column, value)]
\* summary_stats["Percentile"].apply(lambda x: f"{x:.1f}")
Formatted(row) == [row EXCEPT !.Percentile = Format1f(row.Percentile)]

\* the launch-speed table: Median, 90th, Hard Hit % and Barrel %
SummaryStats(hitter, lv) ==
  [Median |->
     Formatted(Row(nanmedian(Speeds(hitter)), ColMedianSpeed(lv))),
   P90th |->
     Formatted(Row(nanpercentile(Speeds(hitter), Quantile), Col90thSpeed(lv))),
   HardHit |->
     Formatted(Row(Pct(CountIf(hitter, IsHardHit), Len(hitter)),
                   ColHardHitPct(lv))),
   Barrel |->
     Formatted(Row(Pct(CountIf(hitter, IsBarrel), Len(hitter)),
                   ColBarrelPct(lv)))]

\* the launch-angle table: Median and Optimal %
AngleStats(hitter, lv) ==
  [Median |-> Row(nanmedian(Angles(hitter)), ColMedianAngle(lv)),
   Optimal |->
     Row(Pct(CountIf(hitter, IsOptimal), Len(hitter)), ColOptimalPct(lv))]

(* --------------------------- main: Leaderboard ------------------------ *)
\* league_values[league_values["BBEs"] >= min_bbes]
FilterByBBEs(lv, m) == SelectSeq(lv, LAMBDA r : r.BBEs >= m)

IndexOrders(n) ==
  {f \in [1..n -> 1..n] : \A i, j \in 1..n : f[i] = f[j] => i = j}

\* ascending order with NaN first
SortOrdersAscending(rows) ==
  {f \in IndexOrders(Len(rows)) :
     \A i, j \in 1..Len(rows) : i < j =>
       LET x == rows[f[i]].median_launch_speed
           y == rows[f[j]].median_launch_speed
       IN IF y.nan THEN x.nan /\ f[i] < f[j]
          ELSE x.nan \/ Le(x, y)}
\* sort_values("median_launch_speed", ascending=False), default
\* kind="quicksort" and na_position="last": the orders in which the rows may
\* be displayed.  The non-NaN rows come first, largest value first; the order
\* of rows with equal values is not specified; the NaN rows follow in table
\* order.
SortOrders(rows) ==
  {f \in IndexOrders(Len(rows)) :
     \A i, j \in 1..Len(rows) : i < j =>
       LET x == rows[f[i]].median_launch_speed
           y == rows[f[j]].median_launch_speed
       IN IF x.nan THEN y.nan /\ f[i] < f[j]
          ELSE y.nan \/ Ge(x, y)}

\* the object the cache holds after a Leaderboard run that rebinds it to the
\* filtered table
cache_rebound(lv, filtered) == filtered
\* the filtered table is a new DataFrame bound to filtered_league_values;
\* the cached league table is left as it was
cache_after_filter(lv, filtered) == lv

(* ------------------------------ the input ----------------------------- *)
\* launch_speed and launch_angle patterns of the events of a player
ProfileSpeeds ==
  << <<R(90), R(100), NaN, R(96)>>,
     <<NaN>>,
     <<R(100), R(90), R(96)>>,
     <<R(100), R(90), R(95)>> >>
ProfileAngles ==
  << <<R(10), R(20), R(45), NaN, R(40)>>,
     <<R(15), R(50)>>,
     <<R(30), NaN>>,
     <<R(15), R(14), R(41)>> >>
NumProfiles == Len(ProfileSpeeds)

Cyc(s, i) == s[((i - 1) % Len(s)) + 1]
Block(p, c, k) ==
  [i \in 1..c |-> [batter_name |-> p,
                   launch_speed |-> Cyc(ProfileSpeeds[k], i),
                   launch_angle |-> Cyc(ProfileAngles[k], i)]]

RECURSIVE RoundRobin(_)
RoundRobin(blocks) ==
  LET live == SelectSeq(blocks, LAMBDA b : b # <<>>)
  IN IF live = <<>> THEN <<>>
     ELSE [i \in 1..Len(live) |-> Head(live[i])]
          \o RoundRobin([i \in 1..Len(live) |-> Tail(live[i])])

Layouts == {"sorted", "reversed", "interleaved"}

\* per-player event counts: the rotations of CountCycle over the players,
\* and the files in which every player has the same number of events
CountCycle == <<MinCount + MaxExtra, MinCount - 1, MinCount, MinCount + 1>>
CountVectors ==
  {[p \in Players |-> Cyc(CountCycle, p + k)] : k \in 1..Len(CountCycle)}
  \cup {[p \in Players |-> c] : c \in {MinCount - 1, MinCount}}

\* the event table of a file: player p has count[p] events of profile
\* ((p + shift) mod NumProfiles) + 1
Table(count, shift, layout) ==
  LET blocks == [p \in Players |->
                   Block(p, count[p], ((p + shift) % NumProfiles) + 1)]
  IN IF layout = "sorted" THEN Concat(blocks)
     ELSE IF layout = "reversed" THEN Concat(Reverse(blocks))
     ELSE RoundRobin(blocks)

Tables ==
  {Table(count, shift, layout) :
     count \in CountVectors, shift \in 0..(NumProfiles - 1),
     layout \in Layouts}

SliderValues == {SliderMin, SliderMin + 1, SliderDefault, SliderMax}

(* ------------------------------ behaviour ----------------------------- *)
NoTable == <<>>

Init ==
  /\ parquet \in Tables
  /\ cached = FALSE
  /\ bbes = NoTable
  /\ league_values = NoTable
  /\ option = "none"
  /\ player = 0
  /\ error = FALSE
  /\ min_bbes = 0
  /\ summary_stats = NoTable
  /\ angle_stats = NoTable
  /\ leaderboard = NoTable
  /\ rank_a = <<>>
  /\ rank_log = <<>>

\* bbes, league_values = get_data() under st.cache_data: the cached result,
\* or the result of running get_data on the file
Loaded(flip) ==
  IF cached THEN [bbes |-> bbes, league_values |-> league_values]
  ELSE get_data(parquet, flip)
Flips == IF cached THEN {FALSE} ELSE BOOLEAN

\* the Individual Player branch of main, on the tables d of get_data
IndividualView(d, names) ==
  /\ cached' = TRUE
  /\ bbes' = d.bbes
  /\ league_values' = d.league_values
  /\ option' = "Individual Player"
  /\ leaderboard' = NoTable
  /\ UNCHANGED <<parquet, min_bbes, rank_a, rank_log>>
  /\ IF names = <<>>
     THEN \* no player to select: len(hitter) = 0, ZeroDivisionError
          /\ player' = 0
          /\ error' = TRUE
          /\ summary_stats' = NoTable
          /\ angle_stats' = NoTable
     ELSE \E i \in 1..Len(names) :
            /\ player' = names[i]
            /\ error' = FALSE
            /\ summary_stats' =
                 SummaryStats(RowsOf(d.bbes, names[i]), d.league_values)
            /\ angle_stats' =
                 AngleStats(RowsOf(d.bbes, names[i]), d.league_values)

\* the Leaderboard branch of main, on the tables d of get_data
LeaderboardView(d, m, filtered_league_values) ==
  /\ cached' = TRUE
  /\ bbes' = d.bbes
  /\ league_values' =
       cache_after_filter(d.league_values, filtered_league_values)
  /\ option' = "Leaderboard"
  /\ min_bbes' = m
  /\ player' = 0
  /\ error' = FALSE
  /\ \E f \in SortOrders(filtered_league_values) :
       leaderboard' =
         [i \in 1..Len(filtered_league_values) |-> filtered_league_values[f[i]]]
  /\ summary_stats' = NoTable
  /\ angle_stats' = NoTable
  /\ UNCHANGED <<parquet, rank_a, rank_log>>

IndividualRun(d) == IndividualView(d, Unique(d.bbes))
LeaderboardRun(d) ==
  \E m \in SliderValues : LeaderboardView(d, m, FilterByBBEs(d.league_values, m))

\* one run of main with option = "Individual Player"
MainIndividual == \E flip \in Flips : IndividualRun(Loaded(flip))

\* one run of main with option = "Leaderboard"
MainLeaderboard == \E flip \in Flips : LeaderboardRun(Loaded(flip))

Next == MainIndividual \/ MainLeaderboard

Spec == Init /\ [][Next]_vars

(* ------------- percentileofscore on its own: SpecRank ---------------- *)
RankValues == {R(10 * k) : k \in 1..MaxRankVal}
Scenarios ==
  {<<R(50), R(60), R(70), R(80), R(90)>>, <<R(10), R(20), R(30), R(40)>>}
\* reference distributions: every sequence of at most MaxRankLen entries,
\* each a reference value or NaN, and the two distributions of Scenarios
RankInputs ==
  UNION {[1..l -> RankValues \cup {NaN}] : l \in 0..MaxRankLen}
  \cup Scenarios
\* scores: the reference values, values between and around them, 70 and NaN
RankScores == {R(5 * k) : k \in 1..(2 * MaxRankVal + 1)} \cup {R(70), NaN}

InitRank ==
  /\ parquet = NoTable
  /\ cached = FALSE
  /\ bbes = NoTable
  /\ league_values = NoTable
  /\ option = "none"
  /\ player = 0
  /\ error = FALSE
  /\ min_bbes = 0
  /\ summary_stats = NoTable
  /\ angle_stats = NoTable
  /\ leaderboard = NoTable
  /\ rank_a \in RankInputs
  /\ rank_log = <<>>

\* sp.stats.percentileofscore(rank_a, score) for one more score
RankScore ==
  /\ Len(rank_log) < MaxQueries
  /\ \E score \in RankScores :
       rank_log' = Append(rank_log,
                     [score |-> score, perct |-> percentileofscore(rank_a, score)])
  /\ UNCHANGED <<parquet, cached, bbes, league_values, option, player, error,
                 min_bbes, summary_stats, angle_stats, leaderboard, rank_a>>

NextRank == RankScore

SpecRank == InitRank /\ [][NextRank]_vars

(* ------------------------------ properties ---------------------------- *)
\* counts taken over a reference distribution, written out independently of
\* percentileofscore
NumLess(a, v) == Cardinality({i \in 1..Len(a) : ~a[i].nan /\ Lt(a[i], v)})
NumEqual(a, v) == Cardinality({i \in 1..Len(a) : ~a[i].nan /\ Eq(a[i], v)})
NumValues(a) == Cardinality({i \in 1..Len(a) : ~a[i].nan})
InRange(x) == ~x.nan /\ Le(R(0), x) /\ Le(x, R(100))
Plain(a) == Len(a) > 0 /\ ~HasNaN(a)
Logged == 1..Len(rank_log)

\* C1 as stated: for a non-empty NaN-free distribution of N values and a
\* non-NaN score, the percentile is 100 * (L + 0.5 * E) / N.
C1_MeanFormula ==
  \A i \in Logged :
    (Plain(rank_a) /\ ~rank_log[i].score.nan) =>
      Eq(rank_log[i].perct,
         Q(50 * (2 * NumLess(rank_a, rank_log[i].score)
                 + NumEqual(rank_a, rank_log[i].score)),
           NumValues(rank_a)))

\* C1 amended: for a non-empty NaN-free distribution of N values and a
\* non-NaN score, the percentile is 100 * (L + 0.5 * E + 0.5 * T) / N, where
\* T = 1 when the score occurs in the distribution (E >= 1) and T = 0
\* otherwise.
C1_RankFormula ==
  \A i \in Logged :
    (Plain(rank_a) /\ ~rank_log[i].score.nan) =>
      Eq(rank_log[i].perct,
         Q(50 * (2 * NumLess(rank_a, rank_log[i].score)
                 + NumEqual(rank_a, rank_log[i].score)
                 + (IF NumEqual(rank_a, rank_log[i].score) > 0 THEN 1 ELSE 0)),
           NumValues(rank_a)))

\* the first scenario of C1: D = [50, 60, 70, 80, 90] and v = 70, ranked 60
C1_Witness ==
  /\ rank_a = <<R(50), R(60), R(70), R(80), R(90)>>
  /\ \E i \in Logged :
       Eq(rank_log[i].score, R(70)) /\ Eq(rank_log[i].perct, R(60))

EventsOf(t, name) == Cardinality({i \in 1..Len(t) : t[i].batter_name = name})
LeagueRows == 1..Len(league_values)
\* the league-table rows whose hitter_name is the given name
RowsNamed(name) == {i \in LeagueRows : league_values[i].hitter_name = name}
Individual == option = "Individual Player" /\ ~error

\* C2: in the league table, BBEs of every row is the number of events of
\* that row's hitter_name in the filtered event table.
C2_BBEsOfOwnPlayer ==
  cached =>
    \A i \in LeagueRows :
      league_values[i].BBEs = EventsOf(bbes, league_values[i].hitter_name)

\* C3: the leaderboard holds exactly the league-table rows of the players
\* with at least min_bbes events in the event table.
C3_LeaderboardExact ==
  option = "Leaderboard" =>
    /\ {leaderboard[i].hitter_name : i \in 1..Len(leaderboard)}
         = {n \in NamesOf(bbes) : EventsOf(bbes, n) >= min_bbes}
    /\ \A i \in 1..Len(leaderboard) :
         \E j \in LeagueRows : leaderboard[i] = league_values[j]

\* the events of a player that satisfy each condition, counted on the fields
NumOptimal(t, name) ==
  Cardinality({i \in 1..Len(t) :
    /\ t[i].batter_name = name
    /\ ~t[i].launch_angle.nan
    /\ t[i].launch_angle.num >= OptimalLow * t[i].launch_angle.den
    /\ t[i].launch_angle.num <= OptimalHigh * t[i].launch_angle.den})
NumHardHit(t, name) ==
  Cardinality({i \in 1..Len(t) :
    /\ t[i].batter_name = name
    /\ ~t[i].launch_speed.nan
    /\ t[i].launch_speed.num >= HardHitSpeed * t[i].launch_speed.den})
NumBarrel(t, name) ==
  Cardinality({i \in 1..Len(t) :
    /\ t[i].batter_name = name
    /\ ~t[i].launch_speed.nan /\ ~t[i].launch_angle.nan
    /\ t[i].launch_speed.num >= HardHitSpeed * t[i].launch_speed.den
    /\ t[i].launch_angle.num >= OptimalLow * t[i].launch_angle.den
    /\ t[i].launch_angle.num <= OptimalHigh * t[i].launch_angle.den})
NumMissingSpeed(t, name) ==
  Cardinality({i \in 1..Len(t) :
    t[i].batter_name = name /\ t[i].launch_speed.nan})
NumMissingAngle(t, name) ==
  Cardinality({i \in 1..Len(t) :
    t[i].batter_name = name /\ t[i].launch_angle.nan})

\* C4: for every player of the filtered event table, optimal_pct,
\* hard_hit_pct and barrel_pct are 100 * (events of the player satisfying
\* the condition) / (all events of the player); an event with a missing
\* field is never in the numerator and always in the denominator.
C4_Percentages ==
  cached =>
    \A n \in NamesOf(bbes) :
      /\ RowsNamed(n) # {}
      /\ \A i \in RowsNamed(n) :
           /\ Eq(league_values[i].optimal_pct,
                 Q(100 * NumOptimal(bbes, n), EventsOf(bbes, n)))
           /\ Eq(league_values[i].hard_hit_pct,
                 Q(100 * NumHardHit(bbes, n), EventsOf(bbes, n)))
           /\ Eq(league_values[i].barrel_pct,
                 Q(100 * NumBarrel(bbes, n), EventsOf(bbes, n)))

\* a player with hard-hit events, events without launch_speed and events
\* without launch_angle has a row in the league table
C4_Witness ==
  /\ cached
  /\ \E n \in NamesOf(bbes) :
       /\ NumHardHit(bbes, n) > 0
       /\ NumOptimal(bbes, n) > 0
       /\ NumMissingSpeed(bbes, n) > 0
       /\ NumMissingAngle(bbes, n) > 0
       /\ \E i \in RowsNamed(n) : ~league_values[i].hard_hit_pct.nan

\* the number of rows of t equal to row r
Copies(t, r) == Cardinality({i \in 1..Len(t) : t[i] = r})

\* C5: get_data removes every event of each player with fewer than 50
\* events and keeps every event of every other player unchanged; every
\* player of the returned event table and every row of the league table has
\* at least 50 events; the league table has exactly one row per player.
C5_MinimumSample ==
  cached =>
    /\ \A n \in NamesOf(parquet) :
         IF EventsOf(parquet, n) < MinCount
         THEN EventsOf(bbes, n) = 0
         ELSE \A i \in 1..Len(parquet) :
                parquet[i].batter_name = n =>
                  Copies(bbes, parquet[i]) = Copies(parquet, parquet[i])
    /\ Len(bbes) =
         Cardinality({i \in 1..Len(parquet) :
                        EventsOf(parquet, parquet[i].batter_name) >= MinCount})
    /\ \A n \in NamesOf(bbes) :
         EventsOf(bbes, n) >= MinCount /\ Cardinality(RowsNamed(n)) = 1
    /\ \A i \in LeagueRows :
         /\ league_values[i].hitter_name \in NamesOf(bbes)
         /\ league_values[i].BBEs >= MinCount

\* a file with a player of 49 events, who is removed, and a player of
\* exactly 50 events, who is kept
C5_Witness ==
  /\ cached
  /\ \E n \in NamesOf(parquet) :
       EventsOf(parquet, n) = MinCount - 1 /\ EventsOf(bbes, n) = 0
  /\ \E n \in NamesOf(parquet) :
       EventsOf(parquet, n) = MinCount /\ EventsOf(bbes, n) = MinCount

\* C6: when the league column contains NaN, the percentile of a non-NaN
\* player value is a number in [0, 100], computed over the non-NaN entries;
\* the percentile of a NaN player value is NaN.
C6_NaNExcluded ==
  Individual =>
    /\ summary_stats.Median.Player.nan => summary_stats.Median.Percentile.nan
    /\ (/\ ~summary_stats.Median.Player.nan
        /\ HasNaN(ColMedianSpeed(league_values))) =>
          /\ ~summary_stats.Median.Percentile.nan
          /\ summary_stats.Median.Percentile.tenths >= 0
          /\ summary_stats.Median.Percentile.tenths <= 1000

\* the position of a displayed row in the league table
LeaguePosition(r) ==
  CHOOSE j \in LeagueRows : league_values[j].hitter_name = r.hitter_name
Shown == 1..Len(leaderboard)
\* the leaderboard holds the rows of the filtered league table, each once
ShowsFiltered ==
  /\ Len(leaderboard) = Len(FilterByBBEs(league_values, min_bbes))
  /\ \A i \in LeagueRows :
       league_values[i].BBEs >= min_bbes =>
         \E k \in Shown : leaderboard[k] = league_values[i]
\* non-NaN rows first, their values non-increasing down the table
DescendingNaNLast ==
  \A i, j \in Shown :
    i < j =>
      /\ leaderboard[i].median_launch_speed.nan =>
           leaderboard[j].median_launch_speed.nan
      /\ (/\ ~leaderboard[i].median_launch_speed.nan
          /\ ~leaderboard[j].median_launch_speed.nan) =>
           Ge(leaderboard[i].median_launch_speed,
              leaderboard[j].median_launch_speed)

\* C8 as stated: the leaderboard is the filtered league table sorted by
\* median_launch_speed, descending, NaN last, by a stable sort: rows with
\* equal median_launch_speed keep their league-table order.
C8_StableDescending ==
  option = "Leaderboard" =>
    /\ ShowsFiltered
    /\ DescendingNaNLast
    /\ \A i, j \in Shown :
         (/\ i < j
          /\ Eq(leaderboard[i].median_launch_speed,
                leaderboard[j].median_launch_speed)) =>
           LeaguePosition(leaderboard[i]) < LeaguePosition(leaderboard[j])

\* C8 amended: the leaderboard is the filtered league table sorted by
\* median_launch_speed, descending, NaN last; the NaN rows keep their
\* league-table order; nothing is said of the order of rows with equal
\* non-NaN values.
C8_Descending ==
  option = "Leaderboard" =>
    /\ ShowsFiltered
    /\ DescendingNaNLast
    /\ \A i, j \in Shown :
         (/\ i < j
          /\ leaderboard[i].median_launch_speed.nan
          /\ leaderboard[j].median_launch_speed.nan) =>
           LeaguePosition(leaderboard[i]) < LeaguePosition(leaderboard[j])

\* a leaderboard of three rows: two different non-NaN values, displayed in
\* the reverse of their league-table order, and a NaN row
C8_Witness ==
  /\ option = "Leaderboard"
  /\ Len(leaderboard) = 3
  /\ Lt(leaderboard[2].median_launch_speed, leaderboard[1].median_launch_speed)
  /\ LeaguePosition(leaderboard[2]) < LeaguePosition(leaderboard[1])
  /\ leaderboard[3].median_launch_speed.nan

\* what get_data returns for the file, whatever ran before
Fresh == get_data(parquet, FALSE)
ShowsFresh(d) ==
  /\ summary_stats = SummaryStats(RowsOf(d.bbes, player), d.league_values)
  /\ angle_stats = AngleStats(RowsOf(d.bbes, player), d.league_values)

\* C9: no run of main changes the cached event table or league table, and
\* the values shown for a player are those computed from the tables get_data
\* returns for the file, whatever views and slider values came before.
C9_NonDestructive ==
  /\ [][cached => /\ cached'
                  /\ bbes' = bbes
                  /\ league_values' = league_values
                  /\ parquet' = parquet]_vars
  /\ [](Individual => ShowsFresh(Fresh))

\* an Individual Player run after a Leaderboard run whose slider value
\* removed rows of the league table
C9_Witness ==
  /\ Individual
  /\ min_bbes > 0
  /\ Len(FilterByBBEs(league_values, min_bbes)) < Len(league_values)
  /\ ~summary_stats.HardHit.Percentile.nan

\* C10: for every selectable player, the percentages recomputed in main from
\* the player's events are those of the league-table row of that name.
C10_Aligned ==
  cached =>
    \A n \in NamesOf(bbes) :
      /\ RowsNamed(n) # {}
      /\ \A i \in RowsNamed(n) :
           /\ Eq(Pct(CountIf(RowsOf(bbes, n), IsHardHit), Len(RowsOf(bbes, n))),
                 league_values[i].hard_hit_pct)
           /\ Eq(Pct(CountIf(RowsOf(bbes, n), IsBarrel), Len(RowsOf(bbes, n))),
                 league_values[i].barrel_pct)
           /\ Eq(Pct(CountIf(RowsOf(bbes, n), IsOptimal), Len(RowsOf(bbes, n))),
                 league_values[i].optimal_pct)
           /\ (Individual /\ player = n) =>
                /\ Eq(summary_stats.HardHit.Player, league_values[i].hard_hit_pct)
                /\ Eq(summary_stats.Barrel.Player, league_values[i].barrel_pct)
                /\ Eq(angle_stats.Optimal.Player, league_values[i].optimal_pct)

\* a file that is not in name order, with two qualifying players whose
\* hard-hit percentages differ, one of them selected
C10_Witness ==
  /\ Individual
  /\ \E i \in 1..(Len(parquet) - 1) :
       parquet[i].batter_name > parquet[i + 1].batter_name
  /\ \E i, j \in LeagueRows :
       /\ league_values[i].hitter_name = player
       /\ ~Eq(league_values[i].hard_hit_pct, league_values[j].hard_hit_pct)

====
